---- MODULE Spec2Model ----
(***************************************************************************)
(* A model of nsist/copymodules.py: the module copier of pynsist.          *)
(*                                                                         *)
(* Text is modelled as a sequence of tokens (a token is a run of           *)
(* characters that the model never splits: "pyc", ".", "/", "3", ...), so  *)
(* that str.startswith, str.endswith, os.path.splitext and fnmatch are     *)
(* computed, not assumed.  A directory entry name is such a token          *)
(* sequence; a location is a sequence of entry names.                      *)
(***************************************************************************)
EXTENDS Naturals, Sequences, FiniteSets, TLC

VARIABLES
    \* ---- the interpreter and the caller's configuration
    version_info,          \* sys.version_info[:2] of the running interpreter
    target_info,           \* the release the caller's py_version string was written from
    py_version,            \* ModuleCopier.py_version: the target version string
    \* ---- one copy_modules call
    modnames,              \* the requested names, in the caller's order
    exclude,               \* the exclusion patterns (<< >> for None)
    packages_extraPath,    \* sequence of <<key location, relative subdirectory>>
    packages_ignorePath,   \* modname -> set of locations, as given, then normalised
    files_in_target_noext, \* the snapshot of line 181
    i,                     \* position of the for loop of line 189
    pc,                    \* "start" | "loop" | "done" | "raised"
    error,                 \* the exception that left copy_modules, or "none"
    target,                \* the target directory: a set of nodes
    target0,               \* the target directory when copy_modules was called
    calls,                 \* the names ModuleCopier.copy was invoked with, in order
    scratch,               \* the directories made by tempfile.mkdtemp that still exist
    \* ---- one check_package_for_ext_mods walk
    wpath,                 \* its path argument
    wignore,               \* its ignore argument
    wpending,              \* directories os.walk has still to yield
    wvisited,              \* directories os.walk has yielded
    wchecked,              \* directories whose files were handed to check_ext_mod
    wpc,                   \* "idle" | "walk" | "done" | "raised"
    \* ---- one check_ext_mod call
    cpath,                 \* its path argument (the file name)
    cresult                \* "idle" | "pending" | "none" | "ExtensionModuleMismatch"

envVars   == <<version_info, target_info, py_version>>
batchVars == <<modnames, exclude, packages_extraPath, packages_ignorePath,
               files_in_target_noext, i, pc, error, target, target0, calls, scratch>>
walkVars  == <<wpath, wignore, wpending, wvisited, wchecked, wpc>>
checkVars == <<cpath, cresult>>
vars      == <<envVars, batchVars, walkVars, checkVars>>

(***************************************************************************)
(* Bounds of the model.                                                    *)
(***************************************************************************)
MaxNames == 2      \* the longest requested name list
MaxMinor == 11     \* the largest minor release number of a version

(***************************************************************************)
(* Text.                                                                   *)
(***************************************************************************)
DOT == "."
SEP == "/"

\* str.startswith
startswith(s, p) == Len(p) <= Len(s) /\ SubSeq(s, 1, Len(p)) = p

\* str.endswith
endswith(s, p) == Len(p) <= Len(s) /\ SubSeq(s, Len(s) - Len(p) + 1, Len(s)) = p

DigitChars == <<"0", "1", "2", "3", "4", "5", "6", "7", "8", "9">>

\* str(x) of a natural number: its decimal digits
RECURSIVE str(_)
str(n) == IF n < 10 THEN <<DigitChars[n + 1]>>
          ELSE str(n \div 10) \o <<DigitChars[(n % 10) + 1]>>

\* running_python = '.'.join(str(x) for x in sys.version_info[:2])
running_python == str(version_info[1]) \o <<DOT>> \o str(version_info[2])

\* The caller's target version string: "major.minor" or "major.minor.patch".
FormatTarget(t) ==
    str(t.major) \o <<DOT>> \o str(t.minor) \o
    (IF t.patch THEN <<DOT, "0">> ELSE << >>)

\* The position of the last "." of a name, 0 when it has none.
LastDot(s) ==
    LET D == {k \in 1..Len(s) : s[k] = DOT}
    IN  IF D = {} THEN 0 ELSE CHOOSE k \in D : \A j \in D : j <= k

\* os.path.splitext(f)[0] of an entry name: the name up to its last ".",
\* the whole name when it has no "." or only leading ones.
splitext(s) ==
    LET k == LastDot(s)
    IN  IF k = 0 \/ (\A j \in 1..(k - 1) : s[j] = DOT) THEN s
        ELSE SubSeq(s, 1, k - 1)

\* fnmatch.fnmatch over tokens: "*" matches any run of tokens ("/" included),
\* every other token matches itself.
RECURSIVE fnmatch(_, _)
fnmatch(s, p) ==
    IF p = << >> THEN s = << >>
    ELSE IF Head(p) = "*"
         THEN fnmatch(s, Tail(p)) \/ (s # << >> /\ fnmatch(Tail(s), p))
         ELSE s # << >> /\ Head(s) = Head(p) /\ fnmatch(Tail(s), Tail(p))

PYC == <<"*", DOT, "pyc">>       \* the pattern '*.pyc'

(***************************************************************************)
(* Locations.  A location is [abs, comps]: absolute or relative to the     *)
(* working directory, and its components (entry names).                    *)
(***************************************************************************)
N(x) == <<x>>                                \* the entry name made of one token
Abs(c) == [abs |-> TRUE,  comps |-> c]
Rel(c) == [abs |-> FALSE, comps |-> c]

Cwd == <<N("w")>>                            \* os.getcwd()

\* The one symbolic link of the file system: /w/lib/qlink -> /w/lib/q
LinkFrom == <<N("w"), N("lib"), N("qlink")>>
LinkTo   == <<N("w"), N("lib"), N("q")>>

\* os.path.join(a, b)
join(a, b) == IF b.abs THEN b ELSE [abs |-> a.abs, comps |-> a.comps \o b.comps]

\* os.path.abspath
abspath(p) == IF p.abs THEN p ELSE Abs(Cwd \o p.comps)

\* os.path.realpath: absolute, symbolic links resolved
realpath(p) ==
    LET a == abspath(p)
    IN  IF startswith(a.comps, LinkFrom)
        THEN Abs(LinkTo \o SubSeq(a.comps, Len(LinkFrom) + 1, Len(a.comps)))
        ELSE a

\* os.path.samefile: the two locations are the same file
samefile(a, b) == realpath(a) = realpath(b)

\* The longest common leading run of components of two component lists.
RECURSIVE CommonComps(_, _)
CommonComps(a, b) ==
    IF a = << >> \/ b = << >> \/ Head(a) # Head(b) THEN << >>
    ELSE <<Head(a)>> \o CommonComps(Tail(a), Tail(b))

\* os.path.commonpath([a, b]) of two absolute locations; commonpath([a]) is
\* commonpath2(a, a).
commonpath2(a, b) == Abs(CommonComps(a.comps, b.comps))

\* "/".join of the components of a relative location, as one text
RECURSIVE JoinText(_)
JoinText(c) ==
    IF c = << >> THEN << >>
    ELSE IF Len(c) = 1 THEN c[1]
    ELSE c[1] \o <<SEP>> \o JoinText(Tail(c))

\* os.path.basename of a text
basename(s) ==
    LET D == {k \in 1..Len(s) : s[k] = SEP}
    IN  IF D = {} THEN s
        ELSE SubSeq(s, (CHOOSE k \in D : \A j \in D : j <= k) + 1, Len(s))

\* nsist.util.normalize_path of a list of components: "." components
\* dropped, the rest joined with "/".
normalize_path(c) == JoinText(SelectSeq(c, LAMBDA x : x # N(DOT)))

(***************************************************************************)
(* The search path: what importlib.machinery.PathFinder.find_spec finds.   *)
(* A tree is a set of nodes [rel, dir]: the location relative to the       *)
(* tree's root and whether the node is a directory.                        *)
(***************************************************************************)
File(c) == [rel |-> c, dir |-> FALSE]
Dir(c)  == [rel |-> c, dir |-> TRUE]

INITPY == <<"__init__", DOT, "py">>

\* The package p, at /w/lib/p
TreeP == { File(<<INITPY>>), File(<<<<"m", DOT, "pyc">>>>), Dir(<<N("sub")>>),
           File(<<N("sub"), <<"e", DOT, "pyd">>>>) }

\* The package q, at /w/lib/q
TreeQ == { File(<<INITPY>>), File(<<<<"q", DOT, "pyc">>>>) }

\* The members of the archive /w/lib/site.zip
Namelist == { <<"z", DOT, "py">>,
              <<"zp", SEP, "__init__", DOT, "py">>,
              <<"zp", SEP, "m", DOT, "pyc">>,
              <<"zp", "x", DOT, "py">> }

UnitNames == {"a", "b", "c", "s", "p", "q", "z", "zp", "n", "x"}

NoTree == {}

\* importlib.machinery.PathFinder.find_spec(modname, self.path): the loader
\* found for a name.  kind: "nospec" (find_spec returns None), "noloader"
\* (a namespace package: spec.loader is None), "ExtensionFileLoader",
\* "FileLoader", "zipimporter".  file: the backing file's name; dir: the
\* directory holding it; pkg: loader.is_package(modname).
find_spec(modname) ==
    CASE modname = "a" ->
           [kind |-> "FileLoader", pkg |-> FALSE, dir |-> Abs(<<N("w"), N("lib")>>),
            file |-> <<"a", DOT, "py">>, tree |-> NoTree]
      [] modname = "b" ->
           [kind |-> "ExtensionFileLoader", pkg |-> FALSE, dir |-> Abs(<<N("w"), N("lib")>>),
            file |-> <<"b", DOT, "pyd">>, tree |-> NoTree]
      [] modname = "c" ->
           [kind |-> "ExtensionFileLoader", pkg |-> FALSE, dir |-> Abs(<<N("w"), N("lib")>>),
            file |-> <<"c", DOT, "cp36-win_amd64", DOT, "pyd">>, tree |-> NoTree]
      [] modname = "s" ->
           [kind |-> "ExtensionFileLoader", pkg |-> FALSE, dir |-> Abs(<<N("w"), N("lib")>>),
            file |-> <<"s", DOT, "so">>, tree |-> NoTree]
      [] modname = "p" ->
           [kind |-> "FileLoader", pkg |-> TRUE, dir |-> Abs(<<N("w"), N("lib"), N("p")>>),
            file |-> INITPY, tree |-> TreeP]
      [] modname = "q" ->
           [kind |-> "FileLoader", pkg |-> TRUE, dir |-> Abs(<<N("w"), N("lib"), N("q")>>),
            file |-> INITPY, tree |-> TreeQ]
      [] modname = "z" ->
           [kind |-> "zipimporter", pkg |-> FALSE, dir |-> Abs(<<N("w"), N("lib"), <<"site", DOT, "zip">>>>),
            file |-> <<"z", DOT, "py">>, tree |-> NoTree]
      [] modname = "zp" ->
           [kind |-> "zipimporter", pkg |-> TRUE, dir |-> Abs(<<N("w"), N("lib"), <<"site", DOT, "zip">>>>),
            file |-> <<"zp", SEP, "__init__", DOT, "py">>, tree |-> NoTree]
      [] modname = "n" ->
           [kind |-> "noloader", pkg |-> TRUE, dir |-> Abs(<<N("w"), N("lib"), N("n")>>),
            file |-> << >>, tree |-> NoTree]
      [] OTHER ->
           [kind |-> "nospec", pkg |-> FALSE, dir |-> Abs(<< >>),
            file |-> << >>, tree |-> NoTree]

\* The directories of a tree, its root (<< >>) included: what os.walk yields.
TreeDirs(tree) == {<< >>} \cup {n.rel : n \in {m \in tree : m.dir}}

\* The entries of directory d of a tree (os.listdir).
Children(tree, d) ==
    {n \in tree : Len(n.rel) = Len(d) + 1 /\ SubSeq(n.rel, 1, Len(d)) = d}

\* The names of the files of directory d of a tree (os.walk's filenames).
Filenames(tree, d) == {n.rel[Len(n.rel)] : n \in {m \in Children(tree, d) : ~m.dir}}

(***************************************************************************)
(* PlatformCompatibilityChecker: check_ext_mod, check_package_for_ext_mods *)
(***************************************************************************)
\* check_ext_mod(path, target_python): the exception raised, or "none".
\* Only the end of path is read, so path is the file's name.
check_ext_mod(path, target_python) ==
    IF endswith(path, <<DOT, "so">>) THEN "ExtensionModuleMismatch"
    ELSE IF endswith(path, <<DOT, "pyd">>) /\ ~startswith(target_python, running_python)
         THEN "ExtensionModuleMismatch"
         ELSE "none"

\* The dirpath os.walk(path) yields for the directory d of the tree at path.
dirpath(path, d) == [abs |-> path.abs, comps |-> path.comps \o d]

\* formattedPath = os.path.abspath(os.path.realpath(os.path.join(path, dirpath)))
formattedPath(path, d) == abspath(realpath(join(path, dirpath(path, d))))

\* Line 53-55: the directory is passed over (continue).
walk_skips(path, d, ignore) ==
    /\ ignore # {}
    /\ \E item \in ignore :
          commonpath2(item, item) = commonpath2(item, formattedPath(path, d))

\* Lines 57-58 for one directory: the exception raised there, or "none".
walk_dir(path, d, tree, target_python) ==
    IF \E f \in Filenames(tree, d) : check_ext_mod(f, target_python) # "none"
    THEN "ExtensionModuleMismatch" ELSE "none"

\* check_package_for_ext_mods(path, target_python, ignore) over the tree at
\* path: the exception raised, or "none".
check_package_for_ext_mods(path, target_python, ignore, tree) ==
    IF \E d \in TreeDirs(tree) :
          ~walk_skips(path, d, ignore) /\ walk_dir(path, d, tree, target_python) # "none"
    THEN "ExtensionModuleMismatch" ELSE "none"

(***************************************************************************)
(* The target directory: a set of nodes [path, dir, org].  path is the     *)
(* location below the target root, org names what wrote the node: "old"    *)
(* (there before the call), a unit name, or "placeholder".                 *)
(***************************************************************************)
Node(c, d, o) == [path |-> c, dir |-> d, org |-> o]

\* os.listdir(target): the names of the top-level entries
listdir(tgt) == {n.path[1] : n \in tgt}

\* Mutant: the extensions are not stripped.
listdir_raw(tgt) == {n.path[1] : n \in tgt}

\* files_in_target_noext = [os.path.splitext(f)[0] for f in os.listdir(target)]
listdir_noext(tgt) == {splitext(f) : f \in listdir(tgt)}

\* shutil.copy2(file, target) into the directory target: the file lands at
\* target/basename(file), over a file of that name; a directory of that
\* name makes it fail.
copy2(file, tgt, o) ==
    IF \E n \in tgt : n.path = <<file>> /\ n.dir
    THEN [target |-> tgt, error |-> "OSError"]
    ELSE [target |-> {n \in tgt : n.path # <<file>>} \cup {Node(<<file>>, FALSE, o)},
          error  |-> "none"]

\* The nodes shutil.copytree copies: those no directory on the way ignores.
\* ign[d] is the set of names the ignore function returns for directory d.
Copied(tree, ign) ==
    {n \in tree : \A k \in 1..Len(n.rel) : n.rel[k] \notin ign[SubSeq(n.rel, 1, k - 1)]}

\* shutil.copytree(src, dst, ignore): os.makedirs(dst) fails when dst exists
\* or when a file sits on the way to it; then the copied nodes are written.
copytree(tree, ign, dst, tgt, o) ==
    IF \/ \E n \in tgt : n.path = dst
       \/ \E n \in tgt : ~n.dir /\ Len(n.path) < Len(dst) /\ startswith(dst, n.path)
    THEN [target |-> tgt, error |-> "OSError"]
    ELSE [target |-> tgt
                     \cup {Node(SubSeq(dst, 1, k), TRUE, o) :
                             k \in {j \in 1..Len(dst) :
                                      ~\E n \in tgt : n.path = SubSeq(dst, 1, j)}}
                     \cup {Node(dst \o n.rel, n.dir, o) : n \in Copied(tree, ign)},
          error  |-> "none"]

\* The names of the entries of directory d of a tree.
Names(tree, d) == {n.rel[Len(n.rel)] : n \in Children(tree, d)}

\* os.path.relpath(directory, pkgdir) for the directory d of the tree at pkgdir
relpath(d) == IF d = << >> THEN <<N(DOT)>> ELSE d

\* Mutant: only the configured patterns are applied.
ignore_callback_excludes_only(excludes, modname, d, files) ==
    LET full == {normalize_path(<<N("pkgs"), N(modname)>> \o relpath(d) \o <<f>>) : f \in files}
    IN  {basename(fn) :
           fn \in {x \in full : \E k \in 1..Len(excludes) : fnmatch(x, excludes[k])}}

\* copytree_ignore_callback(excludes, pkgdir, modname, directory, files),
\* directory being the directory d of the tree at pkgdir.
copytree_ignore_callback(excludes, modname, d, files) ==
    LET pats == excludes \o <<PYC>>
        full == {normalize_path(<<N("pkgs"), N(modname)>> \o relpath(d) \o <<f>>) : f \in files}
    IN  {basename(fn) :
           fn \in {x \in full : \E k \in 1..Len(pats) : fnmatch(x, pats[k])}}

\* shutil.ignore_patterns('*.pyc')(directory, files)
ignore_patterns_pyc(files) == {f \in files : fnmatch(f, PYC)}

\* Lines 155-166: the ignore function handed to copytree, per directory.
package_ignore(excludes, modname, tree) ==
    [d \in TreeDirs(tree) |->
        IF excludes # << >>
        THEN copytree_ignore_callback(excludes, modname, d, Names(tree, d))
        ELSE ignore_patterns_pyc(Names(tree, d))]

\* Mutant: the keys are compared as text (key == pkgdir).
package_dest_by_text(modname, pkgdir, extraPath) ==
    LET M == {k \in 1..Len(extraPath) : extraPath[k][1] = pkgdir}
    IN  IF M = {} THEN <<N(modname)>>
        ELSE extraPath[CHOOSE k \in M : \A j \in M : k <= j][2] \o <<N(modname)>>

\* Lines 148-153: dest below target, the first key that is the same file as
\* pkgdir deciding the subdirectory.
package_dest(modname, pkgdir, extraPath) ==
    LET M == {k \in 1..Len(extraPath) : samefile(extraPath[k][1], pkgdir)}
    IN  IF M = {} THEN <<N(modname)>>
        ELSE extraPath[CHOOSE k \in M : \A j \in M : k <= j][2] \o <<N(modname)>>

\* packages_ignorePath.get(modname, None), None as the empty set
ignore_get(ignorePath, modname) ==
    IF modname \in DOMAIN ignorePath THEN ignorePath[modname] ELSE {}

(***************************************************************************)
(* ArchiveExtractor: copy_zipmodule, with pjoin and ensurePathFormat.      *)
(***************************************************************************)
\* ensurePathFormat(oldPath): line 25 reads the global name re, which no
\* import of the module binds (lines 1-12), so the call raises NameError.
ensurePathFormat(oldPath) == [raised |-> "NameError", value |-> oldPath]

\* pjoin(a, b) = ensurePathFormat(os.path.join(a, b))
pjoin(a, b) == ensurePathFormat(a \o b)

\* os.path.split(path_in_zip)[0]: the text before the last "/"
zip_pkgdir(s) ==
    LET D == {k \in 1..Len(s) : s[k] = SEP}
    IN  IF D = {} THEN << >>
        ELSE SubSeq(s, 1, (CHOOSE k \in D : \A j \in D : j <= k) - 1)

\* The components of a member name (split at "/").
RECURSIVE SplitSep(_)
SplitSep(s) ==
    LET D == {k \in 1..Len(s) : s[k] = SEP}
    IN  IF D = {} THEN <<s>>
        ELSE LET k == CHOOSE x \in D : \A j \in D : x <= j
             IN  <<SubSeq(s, 1, k - 1)>> \o SplitSep(SubSeq(s, k + 1, Len(s)))

\* The tree below pkgdir that extracting the members leaves in the scratch
\* directory.
extracted_tree(members, pkgdir) ==
    {File(Tail(SplitSep(m))) : m \in {x \in members : startswith(x, pkgdir \o <<SEP>>)}}

\* copy_zipmodule(loader, modname, target): tempfile.mkdtemp, the members
\* extracted, then pjoin's value handed to copytree or copy2, then rmtree.
\* scr is the set of scratch directories that exist.
copy_zipmodule(loader, modname, tgt, scr) ==
    LET path_in_zip == loader.file
        pkgdir   == zip_pkgdir(path_in_zip)
        pkgfiles == {f \in Namelist : startswith(f, pkgdir)}
        tempdir  == [id |-> Cardinality(scr) + 1,
                     members |-> IF loader.pkg THEN pkgfiles ELSE {path_in_zip}]
        joined   == IF loader.pkg THEN pjoin(<<"tmp", SEP>>, pkgdir)
                    ELSE pjoin(<<"tmp", SEP>>, path_in_zip)
        written  == IF loader.pkg
                    THEN copytree(extracted_tree(pkgfiles, pkgdir),
                                  [d \in {<< >>} |-> {}], <<N(modname)>>, tgt, modname)
                    ELSE copy2(basename(path_in_zip), tgt, modname)
    IN  IF joined.raised # "none"
        THEN [target |-> tgt, error |-> joined.raised, scratch |-> scr \cup {tempdir}]
        ELSE IF written.error # "none"
        THEN [target |-> tgt, error |-> written.error, scratch |-> scr \cup {tempdir}]
        ELSE [target |-> written.target, error |-> "none", scratch |-> scr]

(***************************************************************************)
(* CopyEngine: ModuleCopier.copy                                           *)
(***************************************************************************)
\* Mutant: the file is copied before it is checked.
copy_extension_unchecked(loader, modname, tgt) ==
    LET w == copy2(loader.file, tgt, modname)
        c == check_ext_mod(loader.file, py_version)
    IN  IF c # "none" THEN [target |-> w.target, error |-> c] ELSE w

\* Lines 137-139: an extension module
copy_extension(loader, modname, tgt) ==
    LET c == check_ext_mod(loader.file, py_version)
    IN  IF c # "none" THEN [target |-> tgt, error |-> c]
        ELSE copy2(loader.file, tgt, modname)

\* Lines 143-166: a package directory
copy_package(loader, modname, tgt) ==
    LET pkgdir == loader.dir
        c == check_package_for_ext_mods(pkgdir, py_version,
                 ignore_get(packages_ignorePath, modname), loader.tree)
    IN  IF c # "none" THEN [target |-> tgt, error |-> c]
        ELSE copytree(loader.tree, package_ignore(exclude, modname, loader.tree),
                      package_dest(modname, pkgdir, packages_extraPath), tgt, modname)

\* ModuleCopier.copy(modname, target, exclude, packages_extraPath,
\* packages_ignorePath): the target and the scratch directories it leaves and
\* the exception it raises ("none" when it returns).
copy(modname, tgt, scr) ==
    LET loader == find_spec(modname)
        r == CASE loader.kind = "ExtensionFileLoader" -> copy_extension(loader, modname, tgt)
               [] loader.kind = "FileLoader" /\ loader.pkg -> copy_package(loader, modname, tgt)
               [] OTHER -> copy2(loader.file, tgt, modname)
    IN  CASE loader.kind = "nospec"      -> [target |-> tgt, error |-> "ImportError", scratch |-> scr]
          [] loader.kind = "noloader"    -> [target |-> tgt, error |-> "ImportError", scratch |-> scr]
          [] loader.kind = "zipimporter" -> copy_zipmodule(loader, modname, tgt, scr)
          [] OTHER -> [target |-> r.target, error |-> r.error, scratch |-> scr]

(***************************************************************************)
(* BatchOrchestrator: copy_modules, one action per step of the call.       *)
(***************************************************************************)
\* The name lists a caller passes.
NameLists == UNION {[1..n -> UnitNames] : n \in 0..MaxNames}

\* The target directories a call starts from.
InitialTargets ==
    { {},
      {Node(<<<<"a", DOT, "py">>>>, FALSE, "old")},
      {Node(<<<<"p", DOT, "txt">>>>, FALSE, "old"), Node(<<N("notes")>>, FALSE, "old")},
      {Node(<<N("win")>>, TRUE, "old"), Node(<<N("win"), N("q")>>, TRUE, "old")} }

\* exclude: None, or ['pkgs/p/sub']
ExcludeChoices == { << >>, << <<"pkgs", SEP, "p", SEP, "sub">> >> }

\* packages_extraPath: None, or {'/w/lib/qlink': 'win'}
ExtraPathChoices == { << >>, << <<Abs(LinkFrom), <<N("win")>>>> >> }

\* packages_ignorePath: None, or {'p': ['lib/p/sub']}
IgnorePathChoices == { [m \in {} |-> {}],
                       [m \in {"p"} |-> {Rel(<<N("lib"), N("p"), N("sub")>>)}] }

\* The releases a caller targets in a batch.
BatchTargets == { [major |-> 3, minor |-> 6, patch |-> FALSE],
                  [major |-> 3, minor |-> 7, patch |-> FALSE] }

WalkIdle ==
    /\ wpath = Abs(<< >>) /\ wignore = {} /\ wpending = {} /\ wvisited = {}
    /\ wchecked = {} /\ wpc = "idle"

CheckIdle == cpath = << >> /\ cresult = "idle"

BatchIdle ==
    /\ modnames = << >> /\ exclude = << >> /\ packages_extraPath = << >>
    /\ packages_ignorePath = [m \in {} |-> {}] /\ files_in_target_noext = {}
    /\ i = 1 /\ pc = "idle" /\ error = "none" /\ target = {} /\ target0 = {}
    /\ calls = << >> /\ scratch = {}

Init ==
    /\ version_info = <<3, 6>>
    /\ target_info \in BatchTargets
    /\ py_version = FormatTarget(target_info)
    /\ modnames \in NameLists
    /\ exclude \in ExcludeChoices
    /\ packages_extraPath \in ExtraPathChoices
    /\ packages_ignorePath \in IgnorePathChoices
    /\ files_in_target_noext = {}
    /\ i = 1
    /\ pc = "start"
    /\ error = "none"
    /\ target \in InitialTargets
    /\ target0 = target
    /\ calls = << >>
    /\ scratch = {}
    /\ WalkIdle
    /\ CheckIdle

\* Lines 180-187: the copier, the snapshot of the target, the ignore
\* locations made absolute and link-free.
Start ==
    /\ pc = "start"
    /\ files_in_target_noext' = listdir_noext(target)
    /\ packages_ignorePath' =
          [m \in DOMAIN packages_ignorePath |->
              {abspath(realpath(item)) : item \in packages_ignorePath[m]}]
    /\ pc' = "loop"
    /\ UNCHANGED <<modnames, exclude, packages_extraPath, i, error, target, target0,
                   calls, scratch>>
    /\ UNCHANGED <<envVars, walkVars, checkVars>>

\* Lines 189-192: the name is in the snapshot; continue.
Skip ==
    /\ pc = "loop"
    /\ i <= Len(modnames)
    /\ N(modnames[i]) \in files_in_target_noext
    /\ i' = i + 1
    /\ UNCHANGED <<modnames, exclude, packages_extraPath, packages_ignorePath,
                   files_in_target_noext, pc, error, target, target0, calls, scratch>>
    /\ UNCHANGED <<envVars, walkVars, checkVars>>

\* Line 193: mc.copy returns; the loop goes on.
CopyReturns ==
    /\ pc = "loop"
    /\ i <= Len(modnames)
    /\ N(modnames[i]) \notin files_in_target_noext
    /\ LET r == copy(modnames[i], target, scratch)
       IN  /\ r.error = "none"
           /\ target' = r.target
           /\ scratch' = r.scratch
    /\ calls' = Append(calls, modnames[i])
    /\ i' = i + 1
    /\ UNCHANGED <<modnames, exclude, packages_extraPath, packages_ignorePath,
                   files_in_target_noext, pc, error, target0>>
    /\ UNCHANGED <<envVars, walkVars, checkVars>>

\* Mutant: the exception is swallowed and the loop goes on.
CopyRaises_swallowed ==
    /\ pc = "loop"
    /\ i <= Len(modnames)
    /\ N(modnames[i]) \notin files_in_target_noext
    /\ LET r == copy(modnames[i], target, scratch)
       IN  /\ r.error # "none"
           /\ target' = r.target
           /\ scratch' = r.scratch
           /\ error' = r.error
    /\ calls' = Append(calls, modnames[i])
    /\ i' = i + 1
    /\ UNCHANGED <<modnames, exclude, packages_extraPath, packages_ignorePath,
                   files_in_target_noext, pc, target0>>
    /\ UNCHANGED <<envVars, walkVars, checkVars>>

\* Line 193: mc.copy raises; nothing catches it, copy_modules is left.
CopyRaises ==
    /\ pc = "loop"
    /\ i <= Len(modnames)
    /\ N(modnames[i]) \notin files_in_target_noext
    /\ LET r == copy(modnames[i], target, scratch)
       IN  /\ r.error # "none"
           /\ target' = r.target
           /\ scratch' = r.scratch
           /\ error' = r.error
    /\ calls' = Append(calls, modnames[i])
    /\ pc' = "raised"
    /\ UNCHANGED <<modnames, exclude, packages_extraPath, packages_ignorePath,
                   files_in_target_noext, i, target0>>
    /\ UNCHANGED <<envVars, walkVars, checkVars>>

\* Mutant: the test of line 195 inverted.
needs_placeholder_inverted(names) == names # << >>

\* Line 195: not modnames
needs_placeholder(names) == names = << >>

PLACEHOLDER == Node(<<N("placeholder")>>, FALSE, "placeholder")

\* Lines 197-198: open(os.path.join(target, 'placeholder'), 'w') and write
write_placeholder(tgt) ==
    {n \in tgt : n.path # PLACEHOLDER.path} \cup {PLACEHOLDER}

\* Lines 195-198: the loop is over; the placeholder, and the return.
Finish ==
    /\ pc = "loop"
    /\ i > Len(modnames)
    /\ target' = IF needs_placeholder(modnames) THEN write_placeholder(target) ELSE target
    /\ pc' = "done"
    /\ UNCHANGED <<modnames, exclude, packages_extraPath, packages_ignorePath,
                   files_in_target_noext, i, error, target0, calls, scratch>>
    /\ UNCHANGED <<envVars, walkVars, checkVars>>

Next == Start \/ Skip \/ CopyReturns \/ CopyRaises \/ Finish

Spec == Init /\ [][Next]_vars

(***************************************************************************)
(* check_package_for_ext_mods, one action per directory os.walk yields, as *)
(* ModuleCopier.copy calls it (line 146): path is the package directory    *)
(* the loader names, absolute or relative as the search path entry was,    *)
(* and ignore holds the locations line 185 made absolute.                  *)
(***************************************************************************)
\* The package walked: /w/lib/p with sub, sub/deep and subx.
WalkTree == { File(<<INITPY>>),
              Dir(<<N("sub")>>), File(<<N("sub"), <<"e", DOT, "pyd">>>>),
              Dir(<<N("sub"), N("deep")>>), File(<<N("sub"), N("deep"), <<"g", DOT, "py">>>>),
              Dir(<<<<"sub", "x">>>>), File(<<<<"sub", "x">>, <<"h", DOT, "pyd">>>>) }

WalkPaths == { Abs(<<N("w"), N("lib"), N("p")>>), Rel(<<N("lib"), N("p")>>) }

\* The locations a caller lists to be ignored, as written.
IgnoreCandidates == { Rel(<<N("lib"), N("p"), N("sub")>>),
                      Abs(<<N("w"), N("lib"), N("p"), N("sub"), N("deep")>>),
                      Abs(<<N("w"), N("lib"), N("p"), <<"sub", "x">>>>),
                      Abs(<<N("w"), N("lib"), N("other")>>) }

WalkInit ==
    /\ version_info = <<3, 6>>
    /\ target_info \in BatchTargets
    /\ py_version = FormatTarget(target_info)
    /\ wpath \in WalkPaths
    /\ wignore \in {{abspath(realpath(item)) : item \in S} : S \in SUBSET IgnoreCandidates}
    /\ wpending = {<< >>}
    /\ wvisited = {}
    /\ wchecked = {}
    /\ wpc = "walk"
    /\ BatchIdle
    /\ CheckIdle

\* The directories of the tree directly below d (os.walk's dirnames).
Subdirs(tree, d) == {n.rel : n \in {m \in Children(tree, d) : m.dir}}

\* Lines 52-55: the directory is passed over; os.walk still descends.
WalkSkip ==
    /\ wpc = "walk"
    /\ \E d \in wpending :
          /\ walk_skips(wpath, d, wignore)
          /\ wpending' = (wpending \ {d}) \cup Subdirs(WalkTree, d)
          /\ wvisited' = wvisited \cup {d}
    /\ UNCHANGED <<wpath, wignore, wchecked, wpc>>
    /\ UNCHANGED <<envVars, batchVars, checkVars>>

\* Lines 57-58: every file of the directory passes check_ext_mod.
WalkCheck ==
    /\ wpc = "walk"
    /\ \E d \in wpending :
          /\ ~walk_skips(wpath, d, wignore)
          /\ walk_dir(wpath, d, WalkTree, py_version) = "none"
          /\ wpending' = (wpending \ {d}) \cup Subdirs(WalkTree, d)
          /\ wvisited' = wvisited \cup {d}
          /\ wchecked' = wchecked \cup {d}
    /\ UNCHANGED <<wpath, wignore, wpc>>
    /\ UNCHANGED <<envVars, batchVars, checkVars>>

\* Lines 57-58: check_ext_mod raises on a file of the directory.
WalkRaise ==
    /\ wpc = "walk"
    /\ \E d \in wpending :
          /\ ~walk_skips(wpath, d, wignore)
          /\ walk_dir(wpath, d, WalkTree, py_version) # "none"
          /\ wpending' = wpending \ {d}
          /\ wvisited' = wvisited \cup {d}
          /\ wchecked' = wchecked \cup {d}
    /\ wpc' = "raised"
    /\ UNCHANGED <<wpath, wignore>>
    /\ UNCHANGED <<envVars, batchVars, checkVars>>

\* os.walk is exhausted; the function returns.
WalkReturn ==
    /\ wpc = "walk"
    /\ wpending = {}
    /\ wpc' = "done"
    /\ UNCHANGED <<wpath, wignore, wpending, wvisited, wchecked>>
    /\ UNCHANGED <<envVars, batchVars, checkVars>>

WalkNext == WalkSkip \/ WalkCheck \/ WalkRaise \/ WalkReturn

SpecWalk == WalkInit /\ [][WalkNext]_vars

(***************************************************************************)
(* check_ext_mod as a function of the file name, the target version string *)
(* and the running interpreter's version.                                  *)
(***************************************************************************)
Releases == {<<3, n>> : n \in 0..MaxMinor}

TargetReleases == [major : {3}, minor : 0..MaxMinor, patch : BOOLEAN]

CheckPaths == { <<"a", DOT, "py">>, <<"b", DOT, "pyd">>,
                <<"c", DOT, "cp36-win_amd64", DOT, "pyd">>, <<"s", DOT, "so">> }

CheckInit ==
    /\ version_info \in Releases
    /\ target_info \in TargetReleases
    /\ py_version = FormatTarget(target_info)
    /\ cpath \in CheckPaths
    /\ cresult = "pending"
    /\ BatchIdle
    /\ WalkIdle

\* Lines 40-45: one call of check_ext_mod
CheckExtMod ==
    /\ cresult = "pending"
    /\ cresult' = check_ext_mod(cpath, py_version)
    /\ UNCHANGED cpath
    /\ UNCHANGED <<envVars, batchVars, walkVars>>

CheckNext == CheckExtMod

SpecCheck == CheckInit /\ [][CheckNext]_vars

(***************************************************************************)
(* The claims.                                                             *)
(***************************************************************************)
\* The names of the top-level entries of a directory, extension stripped.
Stems(tgt) == {splitext(n.path[1]) : n \in tgt}

\* The names in a sequence.
Range(q) == {q[k] : k \in 1..Len(q)}

\* C1: when the name the loop is at was, by its stem, a top-level entry of the
\* target as copy_modules was called, the step taken for it neither invokes
\* ModuleCopier.copy nor creates, changes or removes anything in the target.
C1_SkipIsNoOp ==
    [][ (pc = "loop" /\ i <= Len(modnames) /\ N(modnames[i]) \in Stems(target0))
        => (target' = target /\ calls' = calls /\ scratch' = scratch /\ error' = error) ]_vars

C1_Witness ==
    /\ pc = "done"
    /\ Len(modnames) = 2
    /\ N(modnames[1]) \in Stems(target0)
    /\ calls = <<modnames[2]>>

\* C2: during one copy_modules run ModuleCopier.copy is invoked at most once
\* per unit name, an entry staged earlier in the run short-circuiting the copy.
C2_CopiedAtMostOnce ==
    \A j, k \in 1..Len(calls) : calls[j] = calls[k] => j = k

\* The names of a list that the target, as it was at the call, does not hold.
NotStaged(q) == SelectSeq(q, LAMBDA m : N(m) \notin Stems(target0))

\* C3: the names are processed in the caller's order and the first failure
\* leaves copy_modules: the copies invoked are the non-skipped names up to
\* the position reached, in order; once a copy has raised, the call has ended
\* at that position, every earlier non-skipped name has its entry in the
\* target, nothing was written for any later name, and no placeholder.
C3_AbortAtFirstFailure ==
    /\ pc \in {"loop", "done", "raised"} =>
          calls = NotStaged(SubSeq(modnames, 1, IF pc = "raised" THEN i ELSE i - 1))
    /\ error # "none" =>
          /\ pc = "raised"
          /\ i <= Len(modnames)
          /\ calls # << >> /\ calls[Len(calls)] = modnames[i]
          /\ \A k \in 1..(Len(calls) - 1) : \E n \in target : n.org = calls[k]
          /\ \A n \in target \ target0 : n.org \in Range(SubSeq(calls, 1, Len(calls) - 1))

C3_Witness ==
    /\ pc = "raised"
    /\ error = "ImportError"
    /\ modnames = <<"a", "x">>
    /\ i = 2
    /\ calls = <<"a", "x">>
    /\ \E n \in target : n.org = "a"
    /\ PLACEHOLDER \notin target

\* C4: once copy_modules has returned or raised, no scratch directory made by
\* copy_zipmodule exists any more.
C4_ScratchDeleted ==
    pc \in {"done", "raised"} => scratch = {}

\* C5: for a .pyd file check_ext_mod raises exactly when the target release
\* (major.minor) differs from the release of the running interpreter.
C5_RaisesIffVersionDiffers ==
    (cresult \in {"none", "ExtensionModuleMismatch"} /\ endswith(cpath, <<DOT, "pyd">>))
    => (cresult = "ExtensionModuleMismatch"
          <=> <<target_info.major, target_info.minor>> # version_info)

\* The units find_spec resolves to a package.
IsPackage(m) == find_spec(m).pkg

Remapped(d) ==
    \E k \in 1..Len(packages_extraPath) :
        realpath(packages_extraPath[k][1]) = realpath(d)

C9_TargetNotEmpty ==
    pc = "done" =>
        /\ target # {}
        /\ modnames = << >> =>
              /\ PLACEHOLDER \in target
              /\ target0 = {} => target = {PLACEHOLDER}

C9_Witness ==
    /\ pc = "done"
    /\ modnames = << >>
    /\ target0 = {}
    /\ target = {PLACEHOLDER}

\* C10: a copy that raises ExtensionModuleMismatch has written nothing to the
\* target, and it is the copy of an extension module or of a package: a plain
\* file is copied unchecked.
C10_CheckBeforeWrite ==
    [][ (error = "none" /\ error' = "ExtensionModuleMismatch")
        => /\ target' = target
           /\ LET l == find_spec(modnames[i])
              IN  l.kind = "ExtensionFileLoader" \/ (l.kind = "FileLoader" /\ l.pkg) ]_vars

C10_Witness ==
    /\ pc = "raised"
    /\ error = "ExtensionModuleMismatch"
    /\ modnames = <<"a", "p">>
    /\ calls = <<"a", "p">>
    /\ \A n \in target : n.org # "p"
    /\ \E n \in target : n.org = "a"

\* The location of directory d of the tree at path: absolute, link-free.
TrueLocation(path, d) == realpath(dirpath(path, d))

\* Component-wise containment: item is the location p or one of its ancestors.
Contains(item, p) == startswith(p.comps, item.comps)

\* C8: the files of a directory the walk has yielded were handed to
\* check_ext_mod exactly when no ignore entry contains the directory's
\* absolute location, containment being component-wise.
C8_CheckedIffNotContained ==
    \A d \in wvisited :
        d \in wchecked <=> ~\E item \in wignore : Contains(item, TrueLocation(wpath, d))

====
